---- MODULE Spec2Model ----
(***************************************************************************)
(* A model of the WordPress GitHub release API worker (index.js, src/kv.js) *)
(* as a state machine: the three storage tiers (edge response cache, KV    *)
(* metadata store, R2 blob bucket), the GitHub origin, and the invocations *)
(* of handleRequest, split at every await of the handler.                  *)
(***************************************************************************)
EXTENDS Naturals, Sequences, FiniteSets, TLC

\* ------------------------------------------------------------------ bounds

\* Releases the origin publishes in a behaviour of Spec.
MaxTags == 1

\* Requests received in a behaviour of Spec.
MaxRequests == 2

\* Releases the origin publishes in a behaviour of SpecMetadata.
MaxMetadataTags == 2

\* Releases the origin publishes in a behaviour of SpecVersioned.
MaxVersionedTags == 2

\* Releases the origin publishes in a behaviour of SpecRetention.
MaxRetentionTags == 6

\* Requests received in a behaviour of SpecRetention.
MaxRetentionRequests == 6

\* The invocations that may be in flight at once.
Workers == {"w1", "w2"}

\* ------------------------------------------------------------- vocabulary

\* JavaScript's undefined / empty string (both falsy).
Undefined == ""

TagNames == <<"1.0", "2.0", "3.0", "4.0", "5.0", "6.0", "7.0", "8.0">>

Tags(n) == {TagNames[i] : i \in 1..n}

Vendor == "acme"

Package == "pkg"

\* A request URL, as the non-empty segments of its cleaned path (no query).
BasePath == <<"plugins", Vendor, Package>>

MetadataUrls(n) == {BasePath} \cup {BasePath \o <<t>> : t \in Tags(n)}

DownloadUrls(n) == {url \o <<"download">> : url \in MetadataUrls(n)}

ValidUrls(n) == MetadataUrls(n) \cup DownloadUrls(n)

\* Requests the handler's checks reject: no valid type, no vendor, no package.
InvalidUrls == {<<"widgets", Vendor, Package>>, <<"plugins">>, <<"plugins", Vendor>>}

InvalidDownloadUrls == {<<"widgets", Vendor, Package, "download">>}

\* Paths that fail more than one of the handler's checks: no segment at all,
\* and an unknown type with nothing after it.
MalformedUrls == {<<>>, <<"widgets">>}

\* A theme's metadata and download.
ThemeUrls == {<<"themes", Vendor, Package>>, <<"themes", Vendor, Package, "download">>}

\* Every URL a request is made for.
Urls ==
  ValidUrls(MaxTags) \cup ValidUrls(MaxMetadataTags) \cup ValidUrls(MaxVersionedTags)
    \cup InvalidUrls \cup InvalidDownloadUrls \cup MalformedUrls \cup ThemeUrls

\* ---------------------------------------------------------- request parsing

Includes(s, x) == \E i \in 1..Len(s) : s[i] = x

Pop(s) == IF Len(s) = 0 THEN s ELSE SubSeq(s, 1, Len(s) - 1)

Shift(s) == IF Len(s) = 0 THEN Undefined ELSE Head(s)

Rest(s) == IF Len(s) = 0 THEN s ELSE Tail(s)

NormalType(t) ==
  IF t \in {"plugin", "plugins"} THEN "plugin"
  ELSE IF t \in {"theme", "themes"} THEN "theme"
  ELSE t

getDataFromRequest(url) ==
  LET type == NormalType(Shift(url))
      s1 == Rest(url)
      vendor == Shift(s1)
      s2 == Rest(s1)
      package == Shift(s2)
      s3 == Rest(s2)
      isDownload == Includes(s3, "download")
      s4 == IF isDownload THEN Pop(s3) ELSE s3
      version == Shift(s4)
      file == IF type = "theme" THEN <<"style", ".css">> ELSE <<package, ".php">>
  IN [basename |-> <<package, file>>,
      file |-> file,
      isDownload |-> isDownload,
      package |-> package,
      slug |-> package,
      type |-> type,
      vendor |-> vendor,
      version |-> version]

\* ---------------------------------------------------------------- responses

getStatusText(code) ==
  IF code = 400 THEN "Bad Request"
  ELSE IF code = 404 THEN "Not Found"
  ELSE "OK"

NoPayload ==
  [latest |-> Undefined, current |-> Undefined, updated |-> 0, download |-> Undefined]

\* A Response: JSON.stringify of an object is kind "payload" or "error", of a
\* string is kind "string"; a zip body carries the bytes; a redirect has none.
MkResponse(status, statusText, contentType, kind, payload, message, bytes, location) ==
  [status |-> status, statusText |-> statusText, contentType |-> contentType,
   cacheControl |-> "", kind |-> kind, payload |-> payload, message |-> message,
   bytes |-> bytes, location |-> location, disposition |-> Undefined]

\* No response: a cache miss, a null R2 lookup, an invocation without result.
NoResp == MkResponse(0, "", "", "none", NoPayload, "", Undefined, Undefined)

getResponse(kind, payload, message, status) ==
  MkResponse(status, getStatusText(status), "application/json", kind, payload,
             message, Undefined, Undefined)

getErrorResponse(message, statusCode) ==
  getResponse("error", NoPayload, message, statusCode)

\* getJsonResponse as it would be with the status of the source-file error.
getJsonResponseNotFound(payload) == getResponse("payload", payload, "", 404)

getJsonResponse(payload) == getResponse("payload", payload, "", 200)

Redirect(location) ==
  MkResponse(302, "", "", "redirect", NoPayload, "", Undefined, location)

\* What the runtime answers when handleRequest rejects with an uncaught error.
Uncaught == MkResponse(500, "", "", "exception", NoPayload, "", Undefined, Undefined)

\* Clone as it would be with the put made before the Cache-Control header is set.
CloneWithoutCacheControl(response) == [response EXCEPT !.cacheControl = ""]

\* response.clone(): the copy handed to cache.put.
Clone(response) == response

\* ------------------------------------------------------------------ origin

NoRelease ==
  [tag_name |-> Undefined, published_at |-> 0, draft |-> FALSE,
   prerelease |-> FALSE, assets |-> <<>>]

\* The first asset of the release tagged t is identified by t: its download URL
\* and the bytes behind it.
Asset(t) == [browser_download_url |-> t]

Release(t, at, kind) ==
  [tag_name |-> t, published_at |-> at, draft |-> kind = "draft",
   prerelease |-> kind = "prerelease",
   assets |-> IF kind = "noasset" THEN <<>> ELSE <<Asset(t)>>]

ReleaseKinds == {"release", "draft", "prerelease", "noasset"}

\* releases.sort(...) by published_at, newest first; the sort is stable.
RECURSIVE InsertByDate(_, _)
InsertByDate(r, sorted) ==
  IF sorted = <<>> THEN <<r>>
  ELSE IF r.published_at > Head(sorted).published_at THEN <<r>> \o sorted
  ELSE <<Head(sorted)>> \o InsertByDate(r, Tail(sorted))

RECURSIVE SortByDate(_)
SortByDate(rs) ==
  IF rs = <<>> THEN <<>>
  ELSE InsertByDate(rs[Len(rs)], SortByDate(SubSeq(rs, 1, Len(rs) - 1)))

IsViable(release) ==
  /\ ~release.draft
  /\ ~release.prerelease
  /\ Len(release.assets) # 0

\* ValidReleases as it would be without the sort by date.
ValidReleasesUnsorted(rs) == SelectSeq(rs, IsViable)

ValidReleases(rs) == SelectSeq(SortByDate(rs), IsViable)

\* A result: a value, or the message of the Error thrown.
Ok(v) == [ok |-> TRUE, value |-> v, message |-> ""]

Fail(m) == [ok |-> FALSE, value |-> NoRelease, message |-> m]

\* response is [status, body]: the body of a 200 is the release list.
getLatestReleaseDetailJsonFromGitHub(response) ==
  IF response.status # 200 THEN Fail("origin error body")
  ELSE IF Len(response.body) = 0 THEN Fail("No releases available!")
  ELSE IF Len(ValidReleases(response.body)) <= 0 THEN Fail("No valid releases available!")
  ELSE Ok(ValidReleases(response.body)[1])

\* getRelease as it would be with the filter of the release list applied to it.
getReleaseViableOnly(response) ==
  IF response.status # 200 THEN Fail("origin error body")
  ELSE IF ~IsViable(response.body) THEN Fail("Release doesn't have a release asset!")
  ELSE Ok(response.body)

\* response is [status, body]: the body of a 200 is the release.
getRelease(response) ==
  IF response.status # 200 THEN Fail("origin error body")
  ELSE IF Len(response.body.assets) = 0 THEN Fail("Release doesn't have a release asset!")
  ELSE Ok(response.body)

getPayload(latestRelease, release, fileHeaders) ==
  [latest |-> latestRelease.tag_name,
   current |-> fileHeaders.Version,
   updated |-> release.published_at,
   download |-> release.assets[1].browser_download_url]

\* ------------------------------------------------------------------ storage

getFullR2Key(data, version) == <<version, data.package>>

R2Keys == {<<t, Package>> : t \in Tags(MaxRetentionTags)}

NoObject == Undefined

\* The value setKV stores: JSON of data (the release records by their tags).
NoData == [null |-> TRUE, latestRelease |-> NoRelease, release |-> NoRelease]

KVData(latestRelease, release) ==
  [null |-> FALSE, latestRelease |-> latestRelease, release |-> release]

R2Response(object, data) ==
  [MkResponse(200, "", "application/zip", "zip", NoPayload, "", object, Undefined)
     EXCEPT !.disposition = data.slug]

\* -------------------------------------------------------------------- state

VARIABLES
  releases,   \* the origin: the package's releases as the API lists them
  edge,       \* caches.open('wp-github-release-api'): URL -> Response
  kv,         \* env.RELEASE_API_KV_STORE: pathname -> stored data
  r2,         \* env.RELEASE_API_R2_BUCKET: key -> object body
  inv,        \* the invocations of handleRequest, one per worker
  started,    \* requests received so far
  served,     \* history: per URL, what the writer of its edge entry returned
  answered    \* history: per URL, whether the last finished request succeeded

vars == <<releases, edge, kv, r2, inv, started, served, answered>>

NoIO ==
  [edgeR |-> 0, edgeW |-> 0, kvR |-> 0, kvW |-> 0, r2R |-> 0, r2W |-> 0,
   list |-> 0, tag |-> 0, file |-> 0, dl |-> 0]

Inc(io, op) == [io EXCEPT ![op] = @ + 1]

\* An invocation's locals: where it stands (pc), the handler's variables, the
\* I/O it has issued (io), and what it saw when it started (matched, prev, prevOk).
Idle ==
  [pc |-> "idle", url |-> <<>>, cachedData |-> NoData, latestRelease |-> NoRelease,
   release |-> NoRelease, payload |-> NoPayload, zipBlob |-> NoObject,
   r2Response |-> NoResp, response |-> NoResp, io |-> NoIO,
   matched |-> NoResp, prev |-> NoResp, prevOk |-> FALSE]

Init ==
  /\ releases = <<>>
  /\ edge = [u \in Urls |-> NoResp]
  /\ kv = [u \in Urls |-> NoData]
  /\ r2 = [k \in R2Keys |-> NoObject]
  /\ inv = [w \in Workers |-> Idle]
  /\ started = 0
  /\ served = [u \in Urls |-> NoResp]
  /\ answered = [u \in Urls |-> FALSE]

Data(w) == getDataFromRequest(inv[w].url)

Quiet == \A w \in Workers : inv[w].pc \in {"idle", "done"}

Done(i, response) == [i EXCEPT !.pc = "done", !.response = response]

Goto(i, pc) == [i EXCEPT !.pc = pc]

IsSuccess(response) == response.status \in {200, 302}

\* The invocation moves on; a finished request is entered in the history.
Commit(w, i) ==
  /\ inv' = [inv EXCEPT ![w] = i]
  /\ answered' = IF i.pc = "done"
                 THEN [answered EXCEPT ![i.url] = IsSuccess(i.response)]
                 ELSE answered

\* cache.put(cacheKey, response.clone()), then the response is returned.
CachePut(w, i, response) ==
  /\ edge' = [edge EXCEPT ![i.url] = Clone(response)]
  /\ served' = [served EXCEPT ![i.url] = response]
  /\ Commit(w, Done(i, response))

\* ------------------------------------------------------------ handleRequest

Receive(w, url, max) ==
  /\ inv[w].pc \in {"idle", "done"}
  /\ started < max
  /\ started' = started + 1
  /\ inv' = [inv EXCEPT ![w] =
               [Idle EXCEPT !.pc = "match", !.url = url, !.prevOk = answered[url]]]
  /\ UNCHANGED <<releases, edge, kv, r2, served, answered>>

\* CacheHit as it would be with the result of cache.match ignored.
CacheHitIgnored(response) == FALSE

\* if (response): the lookup found an entry.
CacheHit(response) == response # NoResp

\* ValidationError as it would be with the vendor checked before the type.
ValidationErrorVendorFirst(data) ==
  IF data.vendor = Undefined THEN "missing the vendor name"
  ELSE IF data.type # "theme" /\ data.type # "plugin" THEN "missing a valid entity type"
  ELSE IF data.package = Undefined THEN "missing the package name"
  ELSE ""

\* ValidationError as it would be without the check of the package.
ValidationErrorNoPackageCheck(data) ==
  IF data.type # "theme" /\ data.type # "plugin" THEN "missing a valid entity type"
  ELSE IF data.vendor = Undefined THEN "missing the vendor name"
  ELSE ""

\* The error checks of handleRequest: the message of the first that fails.
ValidationError(data) ==
  IF data.type # "theme" /\ data.type # "plugin" THEN "missing a valid entity type"
  ELSE IF data.vendor = Undefined THEN "missing the vendor name"
  ELSE IF data.package = Undefined THEN "missing the package name"
  ELSE ""

\* cache.match, then the checks on the parsed request.
CacheMatch(w) ==
  LET i == [inv[w] EXCEPT !.io = Inc(@, "edgeR"), !.matched = edge[inv[w].url],
                          !.prev = served[inv[w].url]]
      response == edge[i.url]
      error == ValidationError(Data(w))
  IN /\ inv[w].pc = "match"
     /\ IF CacheHit(response) THEN Commit(w, Done(i, response))
        ELSE IF error # "" THEN Commit(w, Done(i, getErrorResponse(error, 400)))
        ELSE Commit(w, Goto(i, "getKV"))
     /\ UNCHANGED <<releases, edge, kv, r2, started, served>>

\* UseCachedData as it would be with the stored metadata never used.
UseCachedDataNever(cachedData, data) == FALSE

UseCachedData(cachedData, data) ==
  /\ ~cachedData.null
  /\ data.isDownload
  /\ cachedData.latestRelease # NoRelease
  /\ cachedData.latestRelease.tag_name # Undefined

\* getKV(env, url.pathname): the read may throw, and nothing catches it.
GetKV(w) ==
  LET i == [inv[w] EXCEPT !.io = Inc(@, "kvR")]
      cachedData == kv[i.url]
  IN /\ inv[w].pc = "getKV"
     /\ \E ok \in BOOLEAN :
          IF ~ok THEN Commit(w, Done(i, Uncaught))
          ELSE IF UseCachedData(cachedData, Data(w))
          THEN Commit(w, Goto([i EXCEPT !.cachedData = cachedData], "fastR2"))
          ELSE Commit(w, Goto([i EXCEPT !.cachedData = cachedData], "list"))
     /\ UNCHANGED <<releases, edge, kv, r2, started, served>>

\* fetchSavedFromR2(env, data, version): [threw, response]; a found object is
\* wrapped in a zip Response, a missing one gives null.
fetchSavedFromR2(ok, data, version) ==
  LET object == r2[getFullR2Key(data, version)]
  IN IF ~ok THEN [threw |-> TRUE, response |-> NoResp]
     ELSE IF object # NoObject
     THEN [threw |-> FALSE, response |-> R2Response(object, data)]
     ELSE [threw |-> FALSE, response |-> NoResp]

\* The download fast path's fetchSavedFromR2, outside any try.
FastR2Get(w) ==
  LET i == [inv[w] EXCEPT !.io = Inc(@, "r2R")]
  IN /\ inv[w].pc = "fastR2"
     /\ \E ok \in BOOLEAN :
          LET got == fetchSavedFromR2(ok, Data(w), i.cachedData.latestRelease.tag_name)
          IN IF got.threw THEN Commit(w, Done(i, Uncaught))
             ELSE IF got.response # NoResp
             THEN Commit(w, Goto([i EXCEPT !.r2Response = got.response], "fastPut"))
             ELSE Commit(w, Goto(i, "list"))
     /\ UNCHANGED <<releases, edge, kv, r2, started, served>>

\* The fast path's cache.put, outside any try, then the R2 response is returned.
FastCachePut(w) ==
  LET i == [inv[w] EXCEPT !.io = Inc(@, "edgeW")]
  IN /\ inv[w].pc = "fastPut"
     /\ \E ok \in BOOLEAN :
          IF ok THEN CachePut(w, i, i.r2Response)
          ELSE Commit(w, Done(i, Uncaught)) /\ UNCHANGED <<edge, served>>
     /\ UNCHANGED <<releases, kv, r2, started>>

\* OriginFailed as it would be with getErrorResponse's default status.
OriginFailedDefaultStatus(message) == getErrorResponse(message, 400)

\* catch (e): the origin's error becomes a 404.
OriginFailed(message) == getErrorResponse(message, 404)

\* The release-list call and the choice of the latest viable release.
FetchReleases(w) ==
  LET i == [inv[w] EXCEPT !.io = Inc(@, "list")]
  IN /\ inv[w].pc = "list"
     /\ \E status \in {200, 403} :
          LET got == getLatestReleaseDetailJsonFromGitHub(
                       [status |-> status, body |-> releases])
              j == [i EXCEPT !.latestRelease = got.value]
          IN IF ~got.ok THEN Commit(w, Done(i, OriginFailed(got.message)))
             ELSE IF Data(w).version # Undefined THEN Commit(w, Goto(j, "tag"))
             ELSE Commit(w, Goto([j EXCEPT !.release = got.value], "file"))
     /\ UNCHANGED <<releases, edge, kv, r2, started, served>>

\* The origin's answer for releases/tags/{version}.
TaggedResponse(up, version) ==
  LET found == SelectSeq(releases, LAMBDA r : r.tag_name = version)
  IN IF up /\ Len(found) > 0 THEN [status |-> 200, body |-> found[1]]
     ELSE [status |-> 404, body |-> NoRelease]

\* FetchRelease as it would be if a failed call by tag fell back to the latest
\* release instead of ending the resolution.
FetchReleaseFallsBackToLatest(w) ==
  LET i == [inv[w] EXCEPT !.io = Inc(@, "tag")]
  IN /\ inv[w].pc = "tag"
     /\ \E up \in BOOLEAN :
          LET got == getRelease(TaggedResponse(up, Data(w).version))
          IN IF ~got.ok THEN Commit(w, Goto([i EXCEPT !.release = i.latestRelease], "file"))
             ELSE Commit(w, Goto([i EXCEPT !.release = got.value], "file"))
     /\ UNCHANGED <<releases, edge, kv, r2, started, served>>

\* The release-by-tag call, made when a version was requested.
FetchRelease(w) ==
  LET i == [inv[w] EXCEPT !.io = Inc(@, "tag")]
  IN /\ inv[w].pc = "tag"
     /\ \E up \in BOOLEAN :
          LET got == getRelease(TaggedResponse(up, Data(w).version))
          IN IF ~got.ok THEN Commit(w, Done(i, OriginFailed(got.message)))
             ELSE Commit(w, Goto([i EXCEPT !.release = got.value], "file"))
     /\ UNCHANGED <<releases, edge, kv, r2, started, served>>

\* The headers read from the source file at a tag: its Version is the tag's.
getFileHeaders(tag) == [Version |-> tag]

\* FetchFile as it would be if the error about the source file were put in the
\* edge cache like a payload.
FetchFileCachingError(w) ==
  LET i == [inv[w] EXCEPT !.io = Inc(@, "file")]
  IN /\ inv[w].pc = "file"
     /\ \E status \in {200, 404} :
          IF status # 200
          THEN CachePut(w, i, getResponse("string", NoPayload, "Unable to fetch file", 404))
          ELSE /\ Commit(w, Goto([i EXCEPT !.payload =
                      getPayload(i.latestRelease, i.release,
                                 getFileHeaders(i.release.tag_name))], "setKV"))
               /\ UNCHANGED <<edge, served>>
     /\ UNCHANGED <<releases, kv, r2, started>>

\* The source-file fetch, then the payload.
FetchFile(w) ==
  LET i == [inv[w] EXCEPT !.io = Inc(@, "file")]
  IN /\ inv[w].pc = "file"
     /\ \E status \in {200, 404} :
          IF status # 200
          THEN Commit(w, Done(i, getResponse("string", NoPayload,
                                             "Unable to fetch file", 404)))
          ELSE Commit(w, Goto([i EXCEPT !.payload =
                 getPayload(i.latestRelease, i.release,
                            getFileHeaders(i.release.tag_name))], "setKV"))
     /\ UNCHANGED <<releases, edge, kv, r2, started, served>>

\* await setKV(env, url.pathname, data): the write may throw, uncaught.
SetKV(w) ==
  LET i == [inv[w] EXCEPT !.io = Inc(@, "kvW")]
  IN /\ inv[w].pc = "setKV"
     /\ \E ok \in BOOLEAN :
          IF ~ok THEN Commit(w, Done(i, Uncaught)) /\ UNCHANGED kv
          ELSE /\ kv' = [kv EXCEPT ![i.url] = KVData(i.latestRelease, i.release)]
               /\ Commit(w, Goto(i, IF Data(w).isDownload THEN "saveExists" ELSE "jsonPut"))
     /\ UNCHANGED <<releases, edge, r2, started, served>>

\* SaveExists as it would be if saveToR2 went on to the save whatever the
\* existence check found.
SaveExistsIgnored(w) ==
  LET i == [inv[w] EXCEPT !.io = Inc(@, "r2R")]
  IN /\ inv[w].pc = "saveExists"
     /\ Commit(w, Goto(i, "saveFetch"))
     /\ UNCHANGED <<releases, edge, kv, r2, started, served>>

\* saveToR2: the existence check; its error is caught inside saveToR2.
SaveExists(w) ==
  LET i == [inv[w] EXCEPT !.io = Inc(@, "r2R")]
  IN /\ inv[w].pc = "saveExists"
     /\ \E ok \in BOOLEAN :
          LET got == fetchSavedFromR2(ok, Data(w), i.latestRelease.tag_name)
          IN IF got.threw \/ got.response # NoResp THEN Commit(w, Goto(i, "r2get"))
             ELSE Commit(w, Goto(i, "saveFetch"))
     /\ UNCHANGED <<releases, edge, kv, r2, started, served>>

\* saveToR2: fetch(downloadUrl); a status other than 200 ends the save.
SaveFetch(w) ==
  LET i == [inv[w] EXCEPT !.io = Inc(@, "dl")]
  IN /\ inv[w].pc = "saveFetch"
     /\ \E status \in {200, 404} :
          IF status # 200 THEN Commit(w, Goto(i, "r2get"))
          ELSE Commit(w, Goto([i EXCEPT !.zipBlob = i.payload.download], "savePut"))
     /\ UNCHANGED <<releases, edge, kv, r2, started, served>>

\* saveToR2: the put under the latest release's key; its error is caught.
SavePut(w) ==
  LET i == [inv[w] EXCEPT !.io = Inc(@, "r2W")]
  IN /\ inv[w].pc = "savePut"
     /\ \E ok \in BOOLEAN :
          /\ r2' = IF ok
                   THEN [r2 EXCEPT ![getFullR2Key(Data(w), i.latestRelease.tag_name)] =
                           i.zipBlob]
                   ELSE r2
          /\ Commit(w, Goto(i, "r2get"))
     /\ UNCHANGED <<releases, edge, kv, started, served>>

\* The fetch of the saved object, inside the try: an error or a null object
\* ends in the redirect to the release's first asset.
R2Fetch(w) ==
  LET i == [inv[w] EXCEPT !.io = Inc(@, "r2R")]
  IN /\ inv[w].pc = "r2get"
     /\ \E ok \in BOOLEAN :
          LET got == fetchSavedFromR2(ok, Data(w), i.latestRelease.tag_name)
          IN IF got.threw \/ got.response = NoResp
             THEN Commit(w, Done(i, Redirect(i.payload.download)))
             ELSE Commit(w, Goto([i EXCEPT !.r2Response = got.response], "dlPut"))
     /\ UNCHANGED <<releases, edge, kv, r2, started, served>>

\* The cache.put of the R2 response, inside the try.
DownloadCachePut(w) ==
  LET i == [inv[w] EXCEPT !.io = Inc(@, "edgeW")]
  IN /\ inv[w].pc = "dlPut"
     /\ \E ok \in BOOLEAN :
          IF ok THEN CachePut(w, i, i.r2Response)
          ELSE Commit(w, Done(i, Redirect(i.payload.download))) /\ UNCHANGED <<edge, served>>
     /\ UNCHANGED <<releases, kv, r2, started>>

SharedMaxAge(response) == [response EXCEPT !.cacheControl = "s-maxage=3600"]

\* The JSON response of a metadata request and its cache.put, outside any try.
JsonCachePut(w) ==
  LET i == [inv[w] EXCEPT !.io = Inc(@, "edgeW")]
      response == SharedMaxAge(getJsonResponse(i.payload))
  IN /\ inv[w].pc = "jsonPut"
     /\ \E ok \in BOOLEAN :
          IF ok THEN CachePut(w, i, response)
          ELSE Commit(w, Done(i, Uncaught)) /\ UNCHANGED <<edge, served>>
     /\ UNCHANGED <<releases, kv, r2, started>>

\* The steps every kind of request can take.
ResolveStep(w) ==
  \/ CacheMatch(w)
  \/ GetKV(w)
  \/ FetchReleases(w)
  \/ FetchFile(w)
  \/ SetKV(w)

\* The steps a request without the download segment can take.
MetadataStep(w) ==
  \/ ResolveStep(w)
  \/ FetchRelease(w)
  \/ JsonCachePut(w)

\* The steps only a download request takes.
DownloadStep(w) ==
  \/ FastR2Get(w)
  \/ FastCachePut(w)
  \/ SaveExists(w)
  \/ SaveFetch(w)
  \/ SavePut(w)
  \/ R2Fetch(w)
  \/ DownloadCachePut(w)

Step(w) ==
  \/ MetadataStep(w)
  \/ DownloadStep(w)

\* -------------------------------------------------------------- environment

\* The vendor publishes the next release; the API lists the newest first.
Publish(kind, max) ==
  /\ Len(releases) < max
  /\ releases' = <<Release(TagNames[Len(releases) + 1], Len(releases) + 1, kind)>>
                   \o releases
  /\ UNCHANGED <<edge, kv, r2, inv, started, served, answered>>

\* The edge cache drops an entry (expiry or eviction).
EvictEdge(url) ==
  /\ edge[url] # NoResp
  /\ edge' = [edge EXCEPT ![url] = NoResp]
  /\ served' = [served EXCEPT ![url] = NoResp]
  /\ answered' = [answered EXCEPT ![url] = FALSE]
  /\ UNCHANGED <<releases, kv, r2, inv, started>>

\* A KV entry reaches its expirationTtl.
ExpireKV(url) ==
  /\ kv[url] # NoData
  /\ kv' = [kv EXCEPT ![url] = NoData]
  /\ answered' = [answered EXCEPT ![url] = FALSE]
  /\ UNCHANGED <<releases, edge, r2, inv, started, served>>

\* ------------------------------------------------------------ specifications

\* Requests one after the other, against an origin that publishes releases of
\* every kind at any time, and tiers that fail at any operation and drop their
\* entries between requests.
Next ==
  \/ \E url \in ValidUrls(MaxTags) \cup InvalidUrls \cup InvalidDownloadUrls :
       Quiet /\ Receive("w1", url, MaxRequests)
  \/ Step("w1")
  \/ \E kind \in ReleaseKinds : Publish(kind, MaxTags)
  \/ \E url \in Urls : Quiet /\ EvictEdge(url)
  \/ \E url \in Urls : Quiet /\ ExpireKV(url)

Spec == Init /\ [][Next]_vars

\* The same, for requests without the download segment only (the blob store
\* stays out of play), against an origin with more releases.
NextMetadata ==
  \/ \E url \in MetadataUrls(MaxMetadataTags) \cup InvalidUrls :
       Quiet /\ Receive("w1", url, MaxRequests)
  \/ MetadataStep("w1")
  \/ \E kind \in ReleaseKinds : Publish(kind, MaxMetadataTags)
  \/ \E url \in Urls : Quiet /\ EvictEdge(url)
  \/ \E url \in Urls : Quiet /\ ExpireKV(url)

SpecMetadata == Init /\ [][NextMetadata]_vars

\* Downloads, of the latest release and of a given version, one after the
\* other; between them the vendor publishes regular releases.
NextVersioned ==
  \/ \E url \in DownloadUrls(MaxVersionedTags) : Quiet /\ Receive("w1", url, MaxRequests)
  \/ ResolveStep("w1")
  \/ FetchRelease("w1")
  \/ DownloadStep("w1")
  \/ Quiet /\ Publish("release", MaxVersionedTags)
  \/ \E url \in Urls : Quiet /\ EvictEdge(url)
  \/ \E url \in Urls : Quiet /\ ExpireKV(url)

SpecVersioned == Init /\ [][NextVersioned]_vars

\* Downloads of the latest release, one after the other; between them the
\* vendor keeps publishing regular releases.
RetentionUrls == {BasePath \o <<"download">>}

NextRetention ==
  \/ \E url \in RetentionUrls : Quiet /\ Receive("w1", url, MaxRetentionRequests)
  \/ ResolveStep("w1")
  \/ DownloadStep("w1")
  \/ Quiet /\ Publish("release", MaxRetentionTags)
  \/ \E url \in Urls : Quiet /\ EvictEdge(url)
  \/ \E url \in Urls : Quiet /\ ExpireKV(url)

SpecRetention == Init /\ [][NextRetention]_vars

\* ------------------------------------------------------------------ claims

Finished(w) == inv[w].pc = "done"

\* The calls an invocation made to the origin (API, raw file, asset download).
OriginCalls(io) == io.list + io.tag + io.file + io.dl

\* The accesses an invocation made to the blob store.
BlobAccesses(io) == io.r2R + io.r2W

\* The request fails the handler's documented checks on type, vendor, package.
InvalidRequest(data) ==
  \/ data.type \notin {"plugin", "theme"}
  \/ data.vendor = Undefined
  \/ data.package = Undefined

\* C1: a request whose URL has an entry in the edge cache when it is looked up
\* is answered with exactly that entry, and has done nothing but that lookup:
\* no KV read, no R2 access, no origin call, no write to any tier.
C1_EdgeHitShortCircuit ==
  \A w \in Workers :
    (Finished(w) /\ inv[w].matched # NoResp)
      => /\ inv[w].response = inv[w].matched
         /\ inv[w].io = [NoIO EXCEPT !.edgeR = 1]

\* C1 witness: a request has been answered from a zip entry of the edge cache.
C1_Witness ==
  \E w \in Workers :
    /\ Finished(w)
    /\ inv[w].matched # NoResp
    /\ inv[w].matched.kind = "zip"
    /\ inv[w].response = inv[w].matched

\* C2: a metadata request without version that finds the edge entry of an
\* earlier identical request answered 200 with the JSON payload returns the
\* very response that request returned, and calls the origin not at all.
C2_MetadataIdempotence ==
  \A w \in Workers :
    (/\ Finished(w)
     /\ inv[w].url = BasePath
     /\ inv[w].prev.status = 200
     /\ inv[w].prev.kind = "payload")
      => /\ inv[w].response = inv[w].prev
         /\ OriginCalls(inv[w].io) = 0

\* C2 witness: the second of two identical metadata requests has finished
\* while the first one's entry was in the edge cache.
C2_Witness ==
  \E w \in Workers :
    /\ Finished(w)
    /\ inv[w].url = BasePath
    /\ inv[w].prev.status = 200
    /\ inv[w].prev.kind = "payload"
    /\ inv[w].response.payload.latest # Undefined

\* C3, as claimed: a download request whose last identical request was
\* answered with the artifact or a redirect, nothing having expired since,
\* makes no origin call and no blob store access.
C3_DownloadIdempotence ==
  \A w \in Workers :
    (Finished(w) /\ Data(w).isDownload /\ inv[w].prevOk)
      => /\ OriginCalls(inv[w].io) = 0
         /\ BlobAccesses(inv[w].io) = 0

\* C4, as claimed: an invalid request is answered 400 having accessed no cache
\* at all, the edge cache included, and having called the origin not at all.
C4_ValidationBeforeAllIO ==
  \A w \in Workers :
    (Finished(w) /\ InvalidRequest(Data(w)))
      => /\ inv[w].response.status = 400
         /\ inv[w].io = NoIO

\* C4, amended: an invalid request is answered 400 with the error body after
\* the one edge cache lookup the handler starts with: no KV or R2 access, no
\* origin call and no write to any tier has been made.
C4_ValidationBeforeStoresAndOrigin ==
  \A w \in Workers :
    (Finished(w) /\ InvalidRequest(Data(w)))
      => /\ inv[w].response.status = 400
         /\ inv[w].response.kind = "error"
         /\ inv[w].io = [NoIO EXCEPT !.edgeR = 1]

\* C4 witness: a request without package has been answered 400.
C4_Witness ==
  \E w \in Workers :
    /\ Finished(w)
    /\ Data(w).package = Undefined
    /\ Data(w).vendor # Undefined
    /\ inv[w].response.status = 400

\* The messages of the errors the two origin calls throw.
ListErrors ==
  {"origin error body", "No releases available!", "No valid releases available!"}

TagErrors == {"origin error body", "Release doesn't have a release asset!"}

\* The invocation called the origin for the release and got none.
ResolutionFailed(w) ==
  /\ inv[w].io.list = 1
  /\ inv[w].release = NoRelease

\* Some artifact of the package is in the blob store.
ArtifactStored == \E k \in R2Keys : k[2] = Package /\ r2[k] # NoObject

\* C5, as claimed: a download request without cached metadata whose origin
\* resolution fails is served an artifact of the package from the blob store
\* if there is one, and only otherwise gets the origin error as a 404.
C5_DownloadFallback ==
  \A w \in Workers :
    (/\ Finished(w)
     /\ Data(w).isDownload
     /\ inv[w].cachedData.null
     /\ ResolutionFailed(w))
      => IF ArtifactStored
         THEN inv[w].response.status = 200 /\ inv[w].response.kind = "zip"
         ELSE inv[w].response.status = 404 /\ inv[w].response.kind = "error"

\* C6: a request without the download segment whose release-list call or
\* release-by-tag call fails is answered 404 with the error's message, has
\* made no blob store access, and has made no origin call after the failed one.
C6_MetadataOriginFailure ==
  \A w \in Workers :
    (Finished(w) /\ ~Data(w).isDownload /\ ResolutionFailed(w))
      => /\ inv[w].response.status = 404
         /\ inv[w].response.kind = "error"
         /\ inv[w].response.message \in
              (IF inv[w].latestRelease = NoRelease THEN ListErrors ELSE TagErrors)
         /\ BlobAccesses(inv[w].io) = 0
         /\ inv[w].io.tag = (IF inv[w].latestRelease = NoRelease THEN 0 ELSE 1)
         /\ inv[w].io.file = 0
         /\ inv[w].io.dl = 0

\* C6 witness: a metadata request for a version whose release has no asset has
\* been answered, the latest viable release having been found before.
C6_Witness ==
  \E w \in Workers :
    /\ Finished(w)
    /\ ~Data(w).isDownload
    /\ ResolutionFailed(w)
    /\ inv[w].latestRelease # NoRelease
    /\ inv[w].response.message = "Release doesn't have a release asset!"

\* C7, as claimed: a download request for which the origin has resolved a
\* release is answered with the artifact (200, application/zip) or with a 302
\* to that release's first asset, never with an error or an uncaught failure.
C7_DownloadNeverFailsAfterResolution ==
  \A w \in Workers :
    (Finished(w) /\ Data(w).isDownload /\ inv[w].release # NoRelease)
      => \/ /\ inv[w].response.status = 200
            /\ inv[w].response.contentType = "application/zip"
         \/ /\ inv[w].response.status = 302
            /\ inv[w].response.location =
                 inv[w].release.assets[1].browser_download_url

\* C8, as claimed: no storage failure reaches the requester, and a request
\* whose origin resolution and source-file fetch succeeded (it has a payload)
\* is answered with a success response.
C8_StorageFailuresNeverSurface ==
  \A w \in Workers :
    Finished(w)
      => /\ inv[w].response # Uncaught
         /\ inv[w].payload # NoPayload => IsSuccess(inv[w].response)

\* C9, as claimed: a download request for version V that is answered with
\* artifact bytes or a redirect gets the first asset of the release tagged V.
C9_VersionedDownloadDeliversVersion ==
  \A w \in Workers :
    (Finished(w) /\ Data(w).isDownload /\ Data(w).version # Undefined)
      => /\ inv[w].response.kind = "zip"
              => inv[w].response.bytes = Asset(Data(w).version).browser_download_url
         /\ inv[w].response.kind = "redirect"
              => inv[w].response.location = Asset(Data(w).version).browser_download_url

\* The keys of the package's artifacts in the blob store.
StoredKeys == {k \in R2Keys : k[2] = Package /\ r2[k] # NoObject}

\* C10, as claimed: once a download without version has been answered, the
\* blob store holds at most 5 artifacts of the package.
C10_BoundedRetention ==
  \A w \in Workers :
    (Finished(w) /\ Data(w).isDownload /\ Data(w).version = Undefined)
      => Cardinality(StoredKeys) <= 5

\* C11: every entry of the edge cache is a 200 response, the JSON payload of a
\* resolved release or the zip of a stored artifact, and is the response its
\* writer returned; no request answered from the edge cache gets a 400 or 404.
C11_EdgeHoldsOnlySuccesses ==
  /\ \A u \in Urls :
       edge[u] # NoResp
         => /\ edge[u].status = 200
            /\ edge[u].kind \in {"payload", "zip"}
            /\ edge[u].kind = "payload" => edge[u].payload.download # Undefined
            /\ edge[u].kind = "zip" => edge[u].bytes # NoObject
            /\ edge[u] = served[u]
  /\ \A w \in Workers :
       (Finished(w) /\ inv[w].matched # NoResp)
         => inv[w].response.status \notin {400, 404}

\* C11 witness: a request has been answered from the JSON entry the edge cache
\* holds for its URL.
C11_Witness ==
  \E w \in Workers :
    /\ Finished(w)
    /\ inv[w].matched # NoResp
    /\ edge[inv[w].url].kind = "payload"
    /\ inv[w].response = edge[inv[w].url]

\* ------------------------------------------------- release selection, alone

\* The longest release list the origin answers with.
MaxListLen == 3

\* The publication dates a release of the list can carry.
PublishTimes == {1, 2, 3}

\* A release list of k releases: the i-th is tagged TagNames[i] and has the
\* date and the kind f gives it, so the list comes in any order of dates.
ReleaseList(k, f) == [i \in 1..k |-> Release(TagNames[i], f[i][1], f[i][2])]

InitOrigin ==
  /\ \E k \in 0..MaxListLen :
       \E f \in [1..k -> PublishTimes \X ReleaseKinds] : releases = ReleaseList(k, f)
  /\ edge = [u \in Urls |-> NoResp]
  /\ kv = [u \in Urls |-> NoData]
  /\ r2 = [k \in R2Keys |-> NoObject]
  /\ inv = [w \in Workers |-> Idle]
  /\ started = 0
  /\ served = [u \in Urls |-> NoResp]
  /\ answered = [u \in Urls |-> FALSE]

\* One metadata request, for the latest release or for the release tagged
\* 1.0, against an origin that lists any releases in any order.
NextOrigin ==
  \/ \E url \in MetadataUrls(1) : Quiet /\ Receive("w1", url, 1)
  \/ MetadataStep("w1")

SpecOrigin == InitOrigin /\ [][NextOrigin]_vars

\* The releases of the list that are no draft, no prerelease and have an asset.
ViableReleases ==
  {releases[n] : n \in {m \in 1..Len(releases) :
                          /\ releases[m].draft = FALSE
                          /\ releases[m].prerelease = FALSE
                          /\ Len(releases[m].assets) >= 1}}

\* r is a viable release of the list and none of them was published later.
IsLatestViable(r) ==
  /\ r \in ViableReleases
  /\ \A other \in ViableReleases : other.published_at <= r.published_at

\* The release-list call of the invocation has been answered with status 200.
ListAnswered(w) ==
  /\ inv[w].io.list = 1
  /\ ~(inv[w].latestRelease = NoRelease /\ inv[w].response.message = "origin error body")

\* C12: applied to a list answered with status 200, the selection returns a
\* viable release with the greatest publication date, and fails exactly when
\* the list has no viable release (the empty list included); the handler's
\* latestRelease is such a release, and its failure is the 404 of a list
\* without viable release.
C12_SelectLatest ==
  LET got == getLatestReleaseDetailJsonFromGitHub([status |-> 200, body |-> releases])
  IN /\ got.ok <=> ViableReleases # {}
     /\ got.ok => IsLatestViable(got.value)
     /\ ~got.ok => got.message \in {"No releases available!", "No valid releases available!"}
     /\ (got.message = "No releases available!") <=> (releases = <<>>)
     /\ \A w \in Workers :
          ListAnswered(w)
            => IF ViableReleases # {}
               THEN IsLatestViable(inv[w].latestRelease)
               ELSE /\ inv[w].latestRelease = NoRelease
                    /\ inv[w].response = OriginFailed(got.message)

\* C12 witness: the list is a draft, then a prerelease, then a viable release,
\* the viable one the oldest, and the handler has selected the viable one.
C12_Witness ==
  /\ Len(releases) = 3
  /\ releases[1].draft /\ releases[1].published_at = 3
  /\ releases[2].prerelease /\ releases[2].published_at = 2
  /\ releases[3] \in ViableReleases /\ releases[3].published_at = 1
  /\ \E w \in Workers : ListAnswered(w) /\ inv[w].latestRelease = releases[3]

\* C12 witness, second case: the later of two viable releases comes second in
\* the list and the handler has selected it.
C12_WitnessSorted ==
  /\ Len(releases) >= 2
  /\ releases[1] \in ViableReleases
  /\ releases[2] \in ViableReleases
  /\ releases[1].published_at < releases[2].published_at
  /\ \E w \in Workers : ListAnswered(w) /\ inv[w].latestRelease = releases[2]

\* The releases of the list tagged v.
TaggedReleases(v) ==
  {releases[n] : n \in {m \in 1..Len(releases) : releases[m].tag_name = v}}

\* C13: a release fetched by tag is accepted if and only if the origin answered
\* 200 and the release has an asset, whatever its draft and prerelease flags;
\* without asset it fails with the no-asset error, on another status with the
\* origin's error; the handler's release is the tagged one, with an asset.
C13_ValidateTagged ==
  /\ \A n \in 1..Len(releases) :
       LET r == releases[n]
           got == getRelease([status |-> 200, body |-> r])
           failed == getRelease([status |-> 404, body |-> r])
       IN /\ got.ok <=> Len(r.assets) >= 1
          /\ got.ok => got.value = r
          /\ ~got.ok => got.message = "Release doesn't have a release asset!"
          /\ ~failed.ok
          /\ failed.message = "origin error body"
  /\ \A w \in Workers :
       inv[w].io.tag = 1
         => IF inv[w].release # NoRelease
            THEN /\ inv[w].release \in TaggedReleases(Data(w).version)
                 /\ Len(inv[w].release.assets) >= 1
            ELSE /\ inv[w].response = OriginFailed(inv[w].response.message)
                 /\ inv[w].response.message \in TagErrors
                 /\ inv[w].response.message = "Release doesn't have a release asset!"
                      => \E r \in TaggedReleases(Data(w).version) : Len(r.assets) = 0
                 /\ (\A r \in TaggedReleases(Data(w).version) : Len(r.assets) >= 1)
                      => inv[w].response.message = "origin error body"

\* C13 witness: the handler has accepted the draft release it asked for by tag.
C13_Witness ==
  \E w \in Workers :
    /\ inv[w].io.tag = 1
    /\ inv[w].release.draft
    /\ inv[w].release.tag_name = Data(w).version
    /\ Len(inv[w].release.assets) >= 1

\* ---------------------------------------------------------- validation, alone

\* Requests of every shape, well-formed and not, one after the other.
ValidationUrls ==
  MalformedUrls \cup InvalidUrls \cup InvalidDownloadUrls \cup ThemeUrls
    \cup {BasePath \o <<"1.0">>, BasePath \o <<"download">>}

NextValidation ==
  \/ \E url \in ValidationUrls : Quiet /\ Receive("w1", url, MaxRequests)
  \/ Step("w1")
  \/ \E kind \in ReleaseKinds : Publish(kind, MaxTags)
  \/ \E url \in Urls : Quiet /\ EvictEdge(url)
  \/ \E url \in Urls : Quiet /\ ExpireKV(url)

SpecValidation == Init /\ [][NextValidation]_vars

\* The 400 of getErrorResponse with the given message.
ClientError(message) ==
  [status |-> 400, statusText |-> "Bad Request", contentType |-> "application/json",
   cacheControl |-> "", kind |-> "error", payload |-> NoPayload, message |-> message,
   bytes |-> Undefined, location |-> Undefined, disposition |-> Undefined]

\* C14: a request that missed the edge cache is answered 400 about the entity
\* type if its type is neither plugin nor theme; otherwise 400 about the
\* vendor if the vendor is missing; otherwise 400 about the package if the
\* package is missing; and otherwise it is not answered 400.
C14_ValidationOutcomes ==
  \A w \in Workers :
    (Finished(w) /\ inv[w].matched = NoResp)
      => IF Data(w).type \notin {"plugin", "theme"}
         THEN inv[w].response = ClientError("missing a valid entity type")
         ELSE IF Data(w).vendor = Undefined
         THEN inv[w].response = ClientError("missing the vendor name")
         ELSE IF Data(w).package = Undefined
         THEN inv[w].response = ClientError("missing the package name")
         ELSE inv[w].response.status # 400

\* C14 witness: a request with an unknown type and no vendor has been answered
\* with the 400 about the entity type.
C14_Witness ==
  \E w \in Workers :
    /\ Finished(w)
    /\ Data(w).type \notin {"plugin", "theme"}
    /\ Data(w).vendor = Undefined
    /\ inv[w].response.status = 400
    /\ inv[w].response.message = "missing a valid entity type"

\* C15, as claimed: every response with status 400 or 404 has the JSON body of
\* an error object, {status: "error", message}.
C15_ErrorBodyShape ==
  \A w \in Workers :
    (Finished(w) /\ inv[w].response.status \in {400, 404})
      => /\ inv[w].response.contentType = "application/json"
         /\ inv[w].response.kind = "error"

\* The metadata the invocation read from KV names a latest tag.
NamesLatestTag(w) ==
  /\ ~inv[w].cachedData.null
  /\ inv[w].cachedData.latestRelease.tag_name # Undefined

\* The blob stored under the key of that tag and the request's package.
FastBlob(w) ==
  r2[<<inv[w].cachedData.latestRelease.tag_name, Data(w).package>>]

\* The zip response made of a blob for the invocation's request.
ZipOf(w, bytes) ==
  [status |-> 200, statusText |-> "", contentType |-> "application/zip",
   cacheControl |-> "", kind |-> "zip", payload |-> NoPayload, message |-> "",
   bytes |-> bytes, location |-> Undefined, disposition |-> Data(w).slug]

MaxConcurrentRequests == 2

\* A fixed upstream state: release 1.0, then release 2.0, both with an asset.
UpstreamReleases == <<Release("2.0", 2, "release"), Release("1.0", 1, "release")>>

InitConcurrent ==
  /\ releases = UpstreamReleases
  /\ edge = [u \in Urls |-> NoResp]
  /\ kv = [u \in Urls |-> NoData]
  /\ r2 = [k \in R2Keys |-> NoObject]
  /\ inv = [w \in Workers |-> Idle]
  /\ started = 0
  /\ served = [u \in Urls |-> NoResp]
  /\ answered = [u \in Urls |-> FALSE]

\* Two invocations of the handler whose steps interleave in any order, the
\* upstream state staying as it is.
NextConcurrent ==
  \/ \E w \in Workers, url \in ValidUrls(1) : Receive(w, url, MaxConcurrentRequests)
  \/ \E w \in Workers : Step(w)

SpecConcurrent == InitConcurrent /\ [][NextConcurrent]_vars

\* The invocation has fetched an asset to put it in the blob store.
WritesBlob(w) == inv[w].zipBlob # NoObject

\* The key saveToR2 writes for the invocation.
BlobKeyWritten(w) == <<inv[w].latestRelease.tag_name, Data(w).package>>

\* C17, as claimed: two requests that write the same key of a tier write the
\* same value: the same blob under a blob key, the same metadata under a
\* path, the same response under a URL.
C17_IdempotentConcurrentWrites ==
  \A w, v \in Workers :
    /\ (WritesBlob(w) /\ WritesBlob(v) /\ BlobKeyWritten(w) = BlobKeyWritten(v))
         => inv[w].zipBlob = inv[v].zipBlob
    /\ (inv[w].io.kvW = 1 /\ inv[v].io.kvW = 1 /\ inv[w].url = inv[v].url)
         => KVData(inv[w].latestRelease, inv[w].release)
              = KVData(inv[v].latestRelease, inv[v].release)
    /\ (/\ Finished(w) /\ Finished(v) /\ inv[w].url = inv[v].url
        /\ inv[w].io.edgeW = 1 /\ inv[v].io.edgeW = 1
        /\ inv[w].response.status = 200 /\ inv[v].response.status = 200)
         => inv[w].response = inv[v].response

\* C18, as claimed: the blob stored under the key of a version and a package
\* is the first asset of the release of that package tagged with that version.
C18_BlobKeyMatchesContent ==
  \A k \in R2Keys :
    r2[k] # NoObject => r2[k] = Asset(k[1]).browser_download_url

\* C19: a request makes each origin call at most once; any origin call or
\* later step implies the release-list call; the call by tag is made only for
\* a request with a version and only once the list call has given a latest
\* release; the source-file fetch is made only once resolution has given the
\* release asked for (by tag if and only if a version was requested); and a
\* failed origin call ends the request at once with the 404 of its error.
C19_NoRetriesAndCallOrdering ==
  \A w \in Workers :
    /\ inv[w].io.list <= 1
    /\ inv[w].io.tag <= 1
    /\ inv[w].io.file <= 1
    /\ (inv[w].io.tag + inv[w].io.file + inv[w].io.dl + inv[w].io.kvW > 0)
         => inv[w].io.list = 1
    /\ inv[w].io.tag = 1
         => /\ Data(w).version # Undefined
            /\ inv[w].latestRelease # NoRelease
    /\ inv[w].io.file = 1
         => /\ inv[w].latestRelease # NoRelease
            /\ inv[w].io.tag = (IF Data(w).version # Undefined THEN 1 ELSE 0)
            /\ inv[w].release.tag_name =
                 (IF Data(w).version # Undefined THEN Data(w).version
                  ELSE inv[w].latestRelease.tag_name)
    /\ (inv[w].io.list = 1 /\ inv[w].latestRelease = NoRelease)
         => /\ Finished(w)
            /\ inv[w].response.status = 404
            /\ inv[w].response.message \in ListErrors
            /\ inv[w].io.tag = 0
            /\ inv[w].io.file = 0
    /\ (inv[w].io.tag = 1 /\ inv[w].release = NoRelease)
         => /\ Finished(w)
            /\ inv[w].response.status = 404
            /\ inv[w].response.message \in TagErrors
            /\ inv[w].io.file = 0

\* C19 witness: a request for a version has made the list call, the call by
\* tag and the source-file fetch, once each.
C19_Witness ==
  \E w \in Workers :
    /\ Data(w).version # Undefined
    /\ inv[w].io.list = 1
    /\ inv[w].io.tag = 1
    /\ inv[w].io.file = 1
    /\ inv[w].release.tag_name # inv[w].latestRelease.tag_name

\* The step is one of invocation w.
StepOf(w) == inv'[w] # inv[w]

\* C20: a step of a request that changes a tier is counted among that
\* request's writes to the tier; and the step by which a request ends in a 400
\* or 404 changes no tier and ends a request that has made no write at all, so
\* an error leaves the edge cache, the KV store and the blob store as the
\* request found them.
C20_ErrorsLeaveStateUnchanged ==
  [][\A w \in Workers :
       /\ (StepOf(w) /\ edge' # edge) => inv'[w].io.edgeW = inv[w].io.edgeW + 1
       /\ (StepOf(w) /\ kv' # kv) => inv'[w].io.kvW = inv[w].io.kvW + 1
       /\ (StepOf(w) /\ r2' # r2) => inv'[w].io.r2W = inv[w].io.r2W + 1
       /\ (StepOf(w) /\ inv'[w].pc = "done" /\ inv'[w].response.status \in {400, 404})
            => /\ edge' = edge
               /\ kv' = kv
               /\ r2' = r2
               /\ inv'[w].io.edgeW = 0
               /\ inv'[w].io.kvW = 0
               /\ inv'[w].io.r2W = 0]_vars

\* C20 witness: a request has ended in the 404 about the source file while the
\* tiers hold what an earlier request wrote.
C20_Witness ==
  \E w \in Workers :
    /\ Finished(w)
    /\ inv[w].response.status = 404
    /\ inv[w].response.message = "Unable to fetch file"
    /\ \E u \in Urls : kv[u] # NoData

\* C21, as claimed: only a download request reads the KV store; a request
\* without the download segment ends without having read it.
C21_MetadataCacheReadOnlyForDownloads ==
  \A w \in Workers :
    inv[w].io.kvR > 0 => Data(w).isDownload

\* The invocation is inside saveToR2, past the existence check, on its way to
\* the put.
Saving(w) == inv[w].pc \in {"saveFetch", "savePut"}

\* C22: with requests one after the other, an invocation goes on to fetch and
\* put the asset only while the key it writes has no blob; the put is the only
\* one of its request and follows its existence check; and no step changes a
\* blob that is there, so each key is written at most once.
C22_NoReupload ==
  [][/\ \A k \in R2Keys : r2[k] # NoObject => r2'[k] = r2[k]
     /\ \A w \in Workers :
          /\ Saving(w) => r2[BlobKeyWritten(w)] = NoObject
          /\ (StepOf(w) /\ inv'[w].io.r2W > inv[w].io.r2W)
               => /\ inv[w].pc = "savePut"
                  /\ inv[w].io.r2W = 0
                  /\ inv[w].io.r2R >= 1
                  /\ r2[BlobKeyWritten(w)] = NoObject
                  /\ \A k \in R2Keys : k # BlobKeyWritten(w) => r2'[k] = r2[k]]_vars

\* C22 witness: a download request has found the blob of its key stored by an
\* earlier request and has finished without fetching or putting the asset.
C22_Witness ==
  \E w \in Workers :
    /\ Finished(w)
    /\ Data(w).isDownload
    /\ inv[w].io.list = 1
    /\ inv[w].io.kvW = 1
    /\ inv[w].io.r2R >= 1
    /\ inv[w].io.dl = 0
    /\ inv[w].io.r2W = 0
    /\ r2[BlobKeyWritten(w)] # NoObject

\* The race C22 leaves open, stated as what overlapping requests do not keep:
\* no invocation is about to put a blob under a key that has one.
C22_NoDuplicatePutWhenOverlapping ==
  \A w \in Workers :
    inv[w].pc = "savePut" => r2[BlobKeyWritten(w)] = NoObject

====
